---------------------------- MODULE Spec2Model ----------------------------
(***************************************************************************)
(* A model of the two-pass recoloring pipeline of src/colorize.rs:         *)
(* colorize, its two parallel passes, the memoized nearest-palette match,  *)
(* the channel blend and the progress counter.                             *)
(*                                                                         *)
(* Colors.  An output-space pixel Rgb<u8> is a triple <<r, g, b>> of       *)
(* integers 0..255.  A perceptual color (palette::Lab) is a record         *)
(* [l, a, b] of integers: the model keeps the structure of the color       *)
(* space (a lightness axis, a red/green axis a, a yellow/blue axis b) on   *)
(* an integer grid instead of f32.                                         *)
(***************************************************************************)
EXTENDS Integers, Sequences, FiniteSets, TLC

(***************************************************************************)
(* Bounds of the model.                                                    *)
(***************************************************************************)
\* Rayon worker threads running pixel tasks.
NumWorkers == 2
\* The largest number of pixels (width * height) of an input image.
MaxPixels == 4
\* The largest number of pixels of an input image that is dithered (a
\* configuration with a dither amount above 0).
MaxDitherPixels == 2
\* The longest palette the nearest-match harness draws.
MaxPalette == 3
\* The number of calls the memoization harness makes.
MaxCalls == 3

(***************************************************************************)
(* Program constants.                                                      *)
(***************************************************************************)
\* update_progress moves the bar when prev_count % 5000 == 0.
ProgressStep == 5000
\* The largest value of a u8 channel.
ChannelMax == 255

Channels == 0..ChannelMax

Min2(m, n) == IF m < n THEN m ELSE n
Max2(m, n) == IF m > n THEN m ELSE n

\* Integer division truncating toward zero, as Rust's float-to-int cast and
\* integer division do.
TruncDiv(n, d) == IF n >= 0 THEN n \div d ELSE -((-n) \div d)

\* `x as u8` for a float x = n / d (d > 0): truncates toward zero and
\* saturates at the bounds of u8.
AsU8(n, d) == Max2(0, Min2(ChannelMax, TruncDiv(n, d)))

\* u8::clamp(0, 255)
ClampU8(v) == Max2(0, Min2(ChannelMax, v))

Lab(l, a, b) == [l |-> l, a |-> a, b |-> b]

(***************************************************************************)
(* Srgb::new(p[0]/255, p[1]/255, p[2]/255).into_color(): the conversion of *)
(* an output-space pixel to the perceptual space.  Lightness is a weighted *)
(* luminance on 0..100, a is the red/green opponent axis, b the            *)
(* yellow/blue opponent axis.                                              *)
(***************************************************************************)
SrgbIntoLab(pixel) ==
    LET lum == (pixel[1] + 2 * pixel[2] + pixel[3]) \div 4
    IN  Lab((lum * 100) \div ChannelMax, pixel[1] - pixel[2], pixel[2] - pixel[3])

(***************************************************************************)
(* utils::lab_to_image_rgb: the perceptual color back to an 8-bit pixel,   *)
(* every channel clamped to 0..255.  The conversion loses information      *)
(* (quantization and clamping): it is not the inverse of SrgbIntoLab.      *)
(***************************************************************************)
lab_to_image_rgb(lab) ==
    LET lum == (lab.l * ChannelMax) \div 100
        g   == lum - TruncDiv(lab.a - lab.b, 4)
    IN  <<ClampU8(g + lab.a), ClampU8(g), ClampU8(g - lab.b)>>

(***************************************************************************)
(* original.improved_difference(a): the perceptual difference metric, a    *)
(* non-negative number weighting the axes non-uniformly.  Distinct palette *)
(* entries can be at the same difference from a color.                     *)
(***************************************************************************)
improved_difference(original, c) ==
    LET dl == original.l - c.l
        da == original.a - c.a
        db == original.b - c.b
    IN  dl * dl + 2 * (da * da) + 2 * (db * db)

(***************************************************************************)
(* blend_colors                                                            *)
(***************************************************************************)
\* A blend factor is a dyadic rational <<num, den>>: such a factor is an
\* exact f32, and so are its products with 8-bit channels and their sum, so
\* the f32 expression of the code has the exact rational value n / d below.
BlendFactors == {<<0, 1>>, <<1, 4>>, <<1, 2>>, <<3, 4>>, <<1, 1>>,
                 <<3, 2>>, <<-1, 2>>}

BlendChannelRound(c1, c2, f) ==
    LET n == c1 * f[1] + c2 * (f[2] - f[1])
    IN  ClampU8((2 * n + f[2]) \div (2 * f[2]))

\* The blend with the weights of the two colors exchanged.
BlendChannel_Swapped(c1, c2, f) ==
    ClampU8(AsU8(c2 * f[1] + c1 * (f[2] - f[1]), f[2]))

\* (color1[k] as f32 * blend_factor + color2[k] as f32 * (1.0 - blend_factor))
\*     as u8).clamp(0, 255)
BlendChannel(c1, c2, f) ==
    ClampU8(AsU8(c1 * f[1] + c2 * (f[2] - f[1]), f[2]))

blend_colors(color1, color2, blend_factor) ==
    <<BlendChannel(color1[1], color2[1], blend_factor),
      BlendChannel(color1[2], color2[2], blend_factor),
      BlendChannel(color1[3], color2[3], blend_factor)>>

(***************************************************************************)
(* find_closest_color                                                      *)
(***************************************************************************)
\* A fold that also replaces the running minimum on Equal: the last minimum.
RECURSIVE MinByFold_Last(_, _, _, _)
MinByFold_Last(original, colors, best, k) ==
    IF k > Len(colors) THEN best
    ELSE IF improved_difference(original, colors[best])
              >= improved_difference(original, colors[k])
         THEN MinByFold_Last(original, colors, k, k + 1)
         ELSE MinByFold_Last(original, colors, best, k + 1)

\* Iterator::min_by folds from the first element and replaces the running
\* minimum only when the comparison says it is Greater than the next
\* element.  MinByFold is the index of the minimum of a non-empty palette.
RECURSIVE MinByFold(_, _, _, _)
MinByFold(original, colors, best, k) ==
    IF k > Len(colors) THEN best
    ELSE IF improved_difference(original, colors[best])
              > improved_difference(original, colors[k])
         THEN MinByFold(original, colors, k, k + 1)
         ELSE MinByFold(original, colors, best, k + 1)

\* colors.iter().min_by(..): an Option, <<>> for None and <<c>> for Some(c).
MinBy(original, colors) ==
    IF Len(colors) = 0 THEN <<>>
    ELSE <<colors[MinByFold(original, colors, 1, 2)]>>

\* .min_by(..).unwrap(): <<c>> when it returns c, <<>> when the unwrap of None
\* panics (an empty palette).
find_closest_color(original, colors) == MinBy(original, colors)

(***************************************************************************)
(* Images, palettes and configurations                                     *)
(***************************************************************************)
Coords(width, height) == (0..(width - 1)) \X (0..(height - 1))

\* ImageBuffer::new(width, height): every pixel zero.
NewImageBuffer(width, height) ==
    [width |-> width, height |-> height,
     pixels |-> [c \in Coords(width, height) |-> <<0, 0, 0>>]]

get_pixel(img, x, y) == img.pixels[<<x, y>>]

put_pixel(img, x, y, pixel) ==
    [img EXCEPT !.pixels = [@ EXCEPT ![<<x, y>>] = pixel]]

\* The colors of the input images, in the order the pixels take them: a red
\* twice, a yellow with the same red channel, and a blue.
PixelColors ==
    <<(<<200, 40, 40>>), (<<200, 40, 40>>), (<<200, 200, 40>>), (<<40, 40, 200>>)>>

\* The input images: every width and height with at most MaxPixels pixels,
\* the pixel of index i = x + y * width of the color i of PixelColors, in turn.
InputImages ==
    {[width |-> w, height |-> h,
      pixels |-> [c \in Coords(w, h) |->
                    PixelColors[((c[1] + c[2] * w) % Len(PixelColors)) + 1]]] :
        <<w, h>> \in {t \in (1..MaxPixels) \X (1..MaxPixels) :
                          t[1] * t[2] <= MaxPixels}}

\* The palette entries: a red and a blue, at lightness 50.
PaletteRed == Lab(50, 80, 20)
PaletteBlue == Lab(50, 10, -90)

\* AppConfig: the palette, the dither amount, the averaging radius and the
\* blend factor.
AppConfig(colors, dither_amount, radius, blend_factor) ==
    [colors |-> colors, dither_amount |-> dither_amount,
     spatial_averaging_radius |-> radius, blend_factor |-> blend_factor]

Configs ==
    {AppConfig(<<PaletteRed, PaletteBlue>>, 0, 0, <<1, 1>>),
     AppConfig(<<PaletteBlue, PaletteRed>>, 0, 1, <<0, 1>>),
     AppConfig(<<PaletteRed, PaletteBlue>>, 1, 1, <<1, 2>>),
     AppConfig(<<>>, 0, 0, <<1, 1>>)}

\* The calls of colorize the model makes: an image and a configuration.
Inputs ==
    {in \in InputImages \X Configs :
        \/ in[2].dither_amount = 0
        \/ in[1].width * in[1].height <= MaxDitherPixels}

(***************************************************************************)
(* colorize: total_pixels and get_coordinates                              *)
(***************************************************************************)
\* (width * height) as u64.  The product is taken in u32; the images of
\* InputImages have at most MaxPixels pixels, far below 2^32.
TotalPixels(width, height) == width * height

\* get_coordinates with the row computed from the column instead of from the
\* index.
get_coordinates_row_of_x(i, width) == <<i % width, (i % width) \div width>>

get_coordinates(i, width) == <<i % width, i \div width>>

(***************************************************************************)
(* memoized_find_closest_color                                             *)
(***************************************************************************)
\* A key of the first channel alone.
CacheKey_FirstChannel(pixel) == <<pixel[1]>>

\* let key = [pixel[0], pixel[1], pixel[2]];
CacheKey(pixel) == <<pixel[1], pixel[2], pixel[3]>>

\* color_map.lock().unwrap().get(&key): <<>> for None, <<lab>> for Some(lab).
CacheGet(map, pixel) ==
    IF CacheKey(pixel) \in DOMAIN map THEN <<map[CacheKey(pixel)]>> ELSE <<>>

\* The closest palette entry stored whole, its lightness included.
ColorizedLab_PaletteLightness(pixel, colors) ==
    find_closest_color(SrgbIntoLab(pixel), colors)

\* The value computed on a miss, <<colorized_lab>>: the pixel's own lightness
\* with the chroma of the closest palette entry; <<>> when find_closest_color
\* panics.
ColorizedLab(pixel, colors) ==
    LET original_lab  == SrgbIntoLab(pixel)
        closest_color == find_closest_color(original_lab, colors)
    IN  IF closest_color = <<>> THEN <<>>
        ELSE <<Lab(original_lab.l, closest_color[1].a, closest_color[1].b)>>

\* An insert into a map that keeps one entry, evicting the others.
CacheInsert_Evicting(map, pixel, colorized_lab) ==
    [k \in {CacheKey(pixel)} |-> colorized_lab]

\* An insert under the key with its channels reversed.
CacheInsert_WrongKey(map, pixel, colorized_lab) ==
    [k \in DOMAIN map \cup {<<pixel[3], pixel[2], pixel[1]>>} |->
        IF k = <<pixel[3], pixel[2], pixel[1]>> THEN colorized_lab ELSE map[k]]

\* color_map.lock().unwrap().insert(key, colorized_lab)
CacheInsert(map, pixel, colorized_lab) ==
    [k \in DOMAIN map \cup {CacheKey(pixel)} |->
        IF k = CacheKey(pixel) THEN colorized_lab ELSE map[k]]

\* HashMap::new()
EmptyMap == [k \in {} |-> Lab(0, 0, 0)]

(***************************************************************************)
(* The numeric utilities of crate::utils                                   *)
(***************************************************************************)
\* The perturbations apply_dithering can draw at a dither amount.
Jitters(dither_amount) == {0, dither_amount}

\* utils::apply_dithering(current, target, amount), with the perturbation it
\* drew: none at amount 0.
apply_dithering(current, target, dither_amount, jitter) ==
    Lab(current.l, target.a + jitter, target.b - jitter)

RECURSIVE SumLab(_, _)
SumLab(image, cs) ==
    IF cs = {} THEN Lab(0, 0, 0)
    ELSE LET c    == CHOOSE d \in cs : TRUE
             lab  == SrgbIntoLab(image.pixels[c])
             rest == SumLab(image, cs \ {c})
         IN  Lab(rest.l + lab.l, rest.a + lab.a, rest.b + lab.b)

\* utils::compute_integral_image(image): at <<x, y>> the sum of the perceptual
\* colors of the pixels left of column x and above row y.
compute_integral_image(image) ==
    [c \in (0..image.width) \X (0..image.height) |->
        SumLab(image, {d \in DOMAIN image.pixels : d[1] < c[1] /\ d[2] < c[2]})]

\* utils::fast_spatial_color_average: the average over the square of the
\* given radius around (x, y), cut to the image, from four corner lookups.
fast_spatial_color_average(x, y, width, height, radius, integral) ==
    LET x0 == Max2(0, x - radius)
        y0 == Max2(0, y - radius)
        x1 == Min2(width - 1, x + radius) + 1
        y1 == Min2(height - 1, y + radius) + 1
        n  == (x1 - x0) * (y1 - y0)
        p  == integral[<<x1, y1>>]
        q  == integral[<<x0, y1>>]
        r  == integral[<<x1, y0>>]
        t  == integral[<<x0, y0>>]
    IN  Lab(TruncDiv(p.l - q.l - r.l + t.l, n),
            TruncDiv(p.a - q.a - r.a + t.a, n),
            TruncDiv(p.b - q.b - r.b + t.b, n))

\* get_lab_color(img, x, y)
get_lab_color(img, x, y) == SrgbIntoLab(get_pixel(img, x, y))

(***************************************************************************)
(* The state of one call of colorize                                       *)
(***************************************************************************)
VARIABLES
    img,                \* the input image (&DynamicImage)
    config,             \* the configuration (&AppConfig)
    phase,              \* where colorize is: "init", "pass1", "integral",
                        \* "pass2", "done" (returned) or "panicked" (unwound)
    total_pixels,       \* let total_pixels = (width * height) as u64
    pending,            \* the indices of 0..total_pixels no worker has taken
    tasks,              \* the pixel tasks the workers are running, by index:
                        \* each one's position in the closure and its locals
    color_map,          \* Arc<Mutex<HashMap<[u8; 3], Lab>>>: the map
    color_map_lock,     \* ... and its mutex: <<>> free, <<i>> held by task i
    output,             \* pass 1's Arc<Mutex<RgbImage>>: the buffer
    output_lock,        \* ... and its mutex
    first_pass_output,  \* the buffer pass 1 returned
    integral_image,     \* compute_integral_image(first_pass_output)
    final_output,       \* pass 2's Arc<Mutex<RgbImage>>: the buffer
    final_output_lock,  \* ... and its mutex
    progress,           \* the AtomicU64 of each pass
    bar_position,       \* the position each pass's ProgressBar shows
    panicked,           \* a pixel task panicked
    result,             \* <<image>> once colorize returned it, else <<>>
    writes,             \* history: put_pixel calls per pass and coordinate
    integral_builds     \* history: calls of compute_integral_image

\* The harnesses that call the pure functions on their own.
VARIABLES
    b_in,               \* blend_colors: [color1, color2, blend_factor]
    b_out,              \* ... <<>>, then <<the pixel it returned>>
    c_in,               \* find_closest_color: [original, colors]
    c_out,              \* ... "none", "panic" or "some", and the entry
    m_colors,           \* memoized_find_closest_color: the palette,
    m_map,              \* ... the color map,
    m_calls,            \* ... and the calls made so far, in order
    d_in,               \* (width * height) as u64: [width, height]
    d_out               \* ... "none", "panic" or "value", and total_pixels

harness_vars ==
    <<b_in, b_out, c_in, c_out, m_colors, m_map, m_calls, d_in, d_out>>

pipeline_vars ==
    <<img, config, phase, total_pixels, pending, tasks, color_map, color_map_lock,
      output, output_lock, first_pass_output, integral_image, final_output,
      final_output_lock, progress, bar_position, panicked, result, writes,
      integral_builds>>

NoLab == Lab(0, 0, 0)
NoImage == NewImageBuffer(0, 0)

\* The locals of a pixel task as it starts.
NewTask ==
    [pc |-> "start", x |-> 0, y |-> 0, pixel |-> <<0, 0, 0>>,
     original_lab |-> NoLab, averaged_lab |-> NoLab, lab |-> NoLab,
     new_pixel |-> <<0, 0, 0>>, prev_count |-> 0, hit |-> FALSE]

\* The indices of the tasks in flight.  Each of the NumWorkers threads of the
\* pool runs one pixel task at a time, to its end.
Running == DOMAIN tasks
WorkerFree == Cardinality(Running) < NumWorkers
AllIdle == Running = {}

\* The task of index i ends: its worker is free again.
EndTask(i) == [j \in Running \ {i} |-> tasks[j]]

\* The pass whose parallel loop is running.
Pass == IF phase = "pass2" THEN 2 ELSE 1

NoWrites == [p \in 1..2 |-> [c \in Coords(img.width, img.height) |-> 0]]

PipelineInit ==
    /\ \E in \in Inputs : img = in[1] /\ config = in[2]
    /\ phase = "init"
    /\ total_pixels = 0
    /\ pending = {}
    /\ tasks = [j \in {} |-> NewTask]
    /\ color_map = EmptyMap
    /\ color_map_lock = <<>>
    /\ output = NoImage
    /\ output_lock = <<>>
    /\ first_pass_output = NoImage
    /\ integral_image = compute_integral_image(NoImage)
    /\ final_output = NoImage
    /\ final_output_lock = <<>>
    /\ progress = [p \in 1..2 |-> 0]
    /\ bar_position = [p \in 1..2 |-> 0]
    /\ panicked = FALSE
    /\ result = <<>>
    /\ writes = NoWrites
    /\ integral_builds = 0

(***************************************************************************)
(* colorize and pass 1, apply_color_mapping_and_dithering                  *)
(***************************************************************************)
\* colorize up to the parallel loop of pass 1: total_pixels, the progress
\* counter, the zeroed output buffer and the empty color map.
Colorize ==
    /\ phase = "init"
    /\ total_pixels' = TotalPixels(img.width, img.height)
    /\ progress' = [progress EXCEPT ![1] = 0]
    /\ output' = NewImageBuffer(img.width, img.height)
    /\ color_map' = EmptyMap
    /\ pending' = 0..(TotalPixels(img.width, img.height) - 1)
    /\ phase' = "pass1"
    /\ UNCHANGED <<img, config, tasks, color_map_lock, output_lock,
                   first_pass_output, integral_image, final_output,
                   final_output_lock, bar_position, panicked, result, writes,
                   integral_builds>>
    /\ UNCHANGED harness_vars

\* A free worker takes index i: get_coordinates, img.get_pixel, and enters
\* memoized_find_closest_color.
StartPixelTask1(i) ==
    /\ phase = "pass1"
    /\ WorkerFree
    /\ i \in pending
    /\ LET c == get_coordinates(i, img.width)
       IN  tasks' = [j \in Running \cup {i} |->
                        IF j = i
                        THEN [NewTask EXCEPT !.pc = "lock_get", !.x = c[1],
                                             !.y = c[2],
                                             !.pixel = get_pixel(img, c[1], c[2])]
                        ELSE tasks[j]]
    /\ pending' = pending \ {i}
    /\ UNCHANGED <<img, config, phase, total_pixels, color_map, color_map_lock,
                   output, output_lock, first_pass_output, integral_image,
                   final_output, final_output_lock, progress, bar_position,
                   panicked, result, writes, integral_builds>>
    /\ UNCHANGED harness_vars

\* color_map.lock() of the lookup
LockColorMapGet(i) ==
    /\ i \in Running
    /\ tasks[i].pc = "lock_get"
    /\ color_map_lock = <<>>
    /\ color_map_lock' = <<i>>
    /\ tasks' = [tasks EXCEPT ![i].pc = "get"]
    /\ UNCHANGED <<img, config, phase, total_pixels, pending, color_map, output,
                   output_lock, first_pass_output, integral_image, final_output,
                   final_output_lock, progress, bar_position, panicked, result,
                   writes, integral_builds>>
    /\ UNCHANGED harness_vars

\* A lookup whose lock is still held after a miss, through the computation
\* of the value.
ColorMapGet_LockKeptOnMiss(i) ==
    /\ i \in Running
    /\ tasks[i].pc = "get"
    /\ color_map_lock = <<i>>
    /\ \/ /\ CacheGet(color_map, tasks[i].pixel) # <<>>
          /\ color_map_lock' = <<>>
          /\ tasks' = [tasks EXCEPT ![i].pc = "dither", ![i].hit = TRUE,
                              ![i].lab = CacheGet(color_map, tasks[i].pixel)[1]]
       \/ /\ CacheGet(color_map, tasks[i].pixel) = <<>>
          /\ color_map_lock' = color_map_lock
          /\ tasks' = [tasks EXCEPT ![i].pc = "compute"]
    /\ UNCHANGED <<img, config, phase, total_pixels, pending, color_map, output,
                   output_lock, first_pass_output, integral_image, final_output,
                   final_output_lock, progress, bar_position, panicked, result,
                   writes, integral_builds>>
    /\ UNCHANGED harness_vars

\* .get(&key) under the lock, which the end of the `if let` releases: a hit
\* returns the stored value, a miss goes on to compute it.
ColorMapGet(i) ==
    /\ i \in Running
    /\ tasks[i].pc = "get"
    /\ color_map_lock = <<i>>
    /\ color_map_lock' = <<>>
    /\ \/ /\ CacheGet(color_map, tasks[i].pixel) # <<>>
          /\ tasks' = [tasks EXCEPT ![i].pc = "dither", ![i].hit = TRUE,
                              ![i].lab = CacheGet(color_map, tasks[i].pixel)[1]]
       \/ /\ CacheGet(color_map, tasks[i].pixel) = <<>>
          /\ tasks' = [tasks EXCEPT ![i].pc = "compute"]
    /\ UNCHANGED <<img, config, phase, total_pixels, pending, color_map, output,
                   output_lock, first_pass_output, integral_image, final_output,
                   final_output_lock, progress, bar_position, panicked, result,
                   writes, integral_builds>>
    /\ UNCHANGED harness_vars

\* The conversion and find_closest_color, no lock held.  With an empty
\* palette the unwrap panics: the task unwinds, the worker thread survives.
ComputeColorizedLab(i) ==
    /\ i \in Running
    /\ tasks[i].pc = "compute"
    /\ \E colorized_lab \in {ColorizedLab(tasks[i].pixel, config.colors)} :
          \/ /\ colorized_lab # <<>>
             /\ tasks' = [tasks EXCEPT ![i].pc = "lock_insert",
                                 ![i].lab = colorized_lab[1]]
             /\ UNCHANGED panicked
          \/ /\ colorized_lab = <<>>
             /\ tasks' = EndTask(i)
             /\ panicked' = TRUE
    /\ UNCHANGED <<img, config, phase, total_pixels, pending, color_map,
                   color_map_lock, output, output_lock, first_pass_output,
                   integral_image, final_output, final_output_lock, progress,
                   bar_position, result, writes, integral_builds>>
    /\ UNCHANGED harness_vars

\* color_map.lock() of the insert
LockColorMapInsert(i) ==
    /\ i \in Running
    /\ tasks[i].pc = "lock_insert"
    /\ color_map_lock = <<>>
    /\ color_map_lock' = <<i>>
    /\ tasks' = [tasks EXCEPT ![i].pc = "insert"]
    /\ UNCHANGED <<img, config, phase, total_pixels, pending, color_map, output,
                   output_lock, first_pass_output, integral_image, final_output,
                   final_output_lock, progress, bar_position, panicked, result,
                   writes, integral_builds>>
    /\ UNCHANGED harness_vars

\* An insert whose lock is not released: the task goes on holding it.
ColorMapInsert_LockKept(i) ==
    /\ i \in Running
    /\ tasks[i].pc = "insert"
    /\ color_map_lock = <<i>>
    /\ color_map' = CacheInsert(color_map, tasks[i].pixel, tasks[i].lab)
    /\ color_map_lock' = color_map_lock
    /\ tasks' = [tasks EXCEPT ![i].pc = "dither"]
    /\ UNCHANGED <<img, config, phase, total_pixels, pending, output,
                   output_lock, first_pass_output, integral_image, final_output,
                   final_output_lock, progress, bar_position, panicked, result,
                   writes, integral_builds>>
    /\ UNCHANGED harness_vars

\* .insert(key, colorized_lab) under the lock, released at the statement's end
ColorMapInsert(i) ==
    /\ i \in Running
    /\ tasks[i].pc = "insert"
    /\ color_map_lock = <<i>>
    /\ color_map' = CacheInsert(color_map, tasks[i].pixel, tasks[i].lab)
    /\ color_map_lock' = <<>>
    /\ tasks' = [tasks EXCEPT ![i].pc = "dither"]
    /\ UNCHANGED <<img, config, phase, total_pixels, pending, output,
                   output_lock, first_pass_output, integral_image, final_output,
                   final_output_lock, progress, bar_position, panicked, result,
                   writes, integral_builds>>
    /\ UNCHANGED harness_vars

\* apply_dithering(colorized_lab, colorized_lab, dither_amount) and
\* lab_to_image_rgb
Dither(i) ==
    /\ i \in Running
    /\ tasks[i].pc = "dither"
    /\ \E jitter \in Jitters(config.dither_amount) :
       \E dithered_color \in {apply_dithering(tasks[i].lab, tasks[i].lab,
                                              config.dither_amount, jitter)} :
       \E new_pixel \in {lab_to_image_rgb(dithered_color)} :
          tasks' = [tasks EXCEPT ![i].pc = "lock_output", ![i].hit = FALSE,
                                 ![i].new_pixel = new_pixel]
    /\ UNCHANGED <<img, config, phase, total_pixels, pending, color_map,
                   color_map_lock, output, output_lock, first_pass_output,
                   integral_image, final_output, final_output_lock, progress,
                   bar_position, panicked, result, writes, integral_builds>>
    /\ UNCHANGED harness_vars

\* output.lock()
LockOutput(i) ==
    /\ i \in Running
    /\ tasks[i].pc = "lock_output"
    /\ output_lock = <<>>
    /\ output_lock' = <<i>>
    /\ tasks' = [tasks EXCEPT ![i].pc = "put"]
    /\ UNCHANGED <<img, config, phase, total_pixels, pending, color_map,
                   color_map_lock, output, first_pass_output, integral_image,
                   final_output, final_output_lock, progress, bar_position,
                   panicked, result, writes, integral_builds>>
    /\ UNCHANGED harness_vars

\* .put_pixel(x, y, new_pixel) under the lock, released at the statement's end
PutPixel1(i) ==
    /\ i \in Running
    /\ tasks[i].pc = "put"
    /\ output_lock = <<i>>
    /\ output' = put_pixel(output, tasks[i].x, tasks[i].y, tasks[i].new_pixel)
    /\ writes' = [writes EXCEPT ![1][<<tasks[i].x, tasks[i].y>>] = @ + 1]
    /\ output_lock' = <<>>
    /\ tasks' = [tasks EXCEPT ![i].pc = "fetch_add"]
    /\ UNCHANGED <<img, config, phase, total_pixels, pending, color_map,
                   color_map_lock, first_pass_output, integral_image,
                   final_output, final_output_lock, progress, bar_position,
                   panicked, result, integral_builds>>
    /\ UNCHANGED harness_vars

(***************************************************************************)
(* update_progress                                                         *)
(***************************************************************************)
\* An increment that is lost when another pixel task is in flight.
FetchAdd_LostUpdate(i) ==
    /\ i \in Running
    /\ tasks[i].pc = "fetch_add"
    /\ progress' = [progress EXCEPT
                        ![Pass] = IF Cardinality(Running) > 1 THEN @ ELSE @ + 1]
    /\ \/ /\ progress[Pass] % ProgressStep = 0
          /\ tasks' = [tasks EXCEPT ![i].pc = "set_position",
                              ![i].prev_count = progress[Pass]]
       \/ /\ progress[Pass] % ProgressStep # 0
          /\ tasks' = EndTask(i)
    /\ UNCHANGED <<img, config, phase, total_pixels, pending, color_map,
                   color_map_lock, output, output_lock, first_pass_output,
                   integral_image, final_output, final_output_lock,
                   bar_position, panicked, result, writes, integral_builds>>
    /\ UNCHANGED harness_vars

\* let prev_count = progress.fetch_add(1, Ordering::Relaxed), and the test
\* prev_count % 5000 == 0
FetchAdd(i) ==
    /\ i \in Running
    /\ tasks[i].pc = "fetch_add"
    /\ progress' = [progress EXCEPT ![Pass] = @ + 1]
    /\ \/ /\ progress[Pass] % ProgressStep = 0
          /\ tasks' = [tasks EXCEPT ![i].pc = "set_position",
                              ![i].prev_count = progress[Pass]]
       \/ /\ progress[Pass] % ProgressStep # 0
          /\ tasks' = EndTask(i)
    /\ UNCHANGED <<img, config, phase, total_pixels, pending, color_map,
                   color_map_lock, output, output_lock, first_pass_output,
                   integral_image, final_output, final_output_lock,
                   bar_position, panicked, result, writes, integral_builds>>
    /\ UNCHANGED harness_vars

\* progress_bar.set_position(prev_count); the pixel task ends
SetPosition(i) ==
    /\ i \in Running
    /\ tasks[i].pc = "set_position"
    /\ bar_position' = [bar_position EXCEPT ![Pass] = tasks[i].prev_count]
    /\ tasks' = EndTask(i)
    /\ UNCHANGED <<img, config, phase, total_pixels, pending, color_map,
                   color_map_lock, output, output_lock, first_pass_output,
                   integral_image, final_output, final_output_lock, progress,
                   panicked, result, writes, integral_builds>>
    /\ UNCHANGED harness_vars

(***************************************************************************)
(* The end of pass 1, and pass 2,                                          *)
(* apply_spatial_averaging_and_luminance_transfer                          *)
(***************************************************************************)
\* A pass 1 that returns without waiting for its pixel tasks.
Pass1Return_NoJoin ==
    /\ phase = "pass1"
    /\ ~panicked
    /\ first_pass_output' = output
    /\ phase' = "integral"
    /\ UNCHANGED <<img, config, total_pixels, pending, tasks, color_map,
                   color_map_lock, output, output_lock, integral_image,
                   final_output, final_output_lock, progress, bar_position,
                   panicked, result, writes, integral_builds>>
    /\ UNCHANGED harness_vars

\* The parallel loop of pass 1 returns once every index has been processed;
\* Arc::try_unwrap(output) hands the buffer to colorize.
Pass1Return ==
    /\ phase = "pass1"
    /\ pending = {}
    /\ AllIdle
    /\ ~panicked
    /\ first_pass_output' = output
    /\ phase' = "integral"
    /\ UNCHANGED <<img, config, total_pixels, pending, tasks, color_map,
                   color_map_lock, output, output_lock, integral_image,
                   final_output, final_output_lock, progress, bar_position,
                   panicked, result, writes, integral_builds>>
    /\ UNCHANGED harness_vars

\* A panic of a pixel task resumes in the thread that called for_each once
\* the workers are done with the tasks they run; the pass and colorize unwind
\* and return nothing.  Indices no worker has taken yet may be left.
PropagatePanic ==
    /\ phase \in {"pass1", "pass2"}
    /\ panicked
    /\ AllIdle
    /\ phase' = "panicked"
    /\ UNCHANGED <<img, config, total_pixels, pending, tasks, color_map,
                   color_map_lock, output, output_lock, first_pass_output,
                   integral_image, final_output, final_output_lock, progress,
                   bar_position, panicked, result, writes, integral_builds>>
    /\ UNCHANGED harness_vars

\* Pass 2 up to its parallel loop: the progress counter, the zeroed final
\* buffer and the integral image of pass 1's output.
ComputeIntegralImage ==
    /\ phase = "integral"
    /\ progress' = [progress EXCEPT ![2] = 0]
    /\ final_output' = NewImageBuffer(img.width, img.height)
    /\ integral_image' = compute_integral_image(first_pass_output)
    /\ integral_builds' = integral_builds + 1
    /\ pending' = 0..(total_pixels - 1)
    /\ phase' = "pass2"
    /\ UNCHANGED <<img, config, total_pixels, tasks, color_map, color_map_lock,
                   output, output_lock, first_pass_output, final_output_lock,
                   bar_position, panicked, result, writes>>
    /\ UNCHANGED harness_vars

\* The averaged color taken whole, its lightness included.
FinalLab_AveragedLightness(original_lab, averaged_lab) == averaged_lab

\* final_lab: the original lightness with the averaged chroma
FinalLab(original_lab, averaged_lab) ==
    Lab(original_lab.l, averaged_lab.a, averaged_lab.b)

\* A free worker takes index i of pass 2 and computes its pixel, no lock
\* held: get_lab_color, fast_spatial_color_average, final_lab,
\* lab_to_image_rgb and blend_colors, each `let` of the closure bound in turn.
StartPixelTask2(i) ==
    /\ phase = "pass2"
    /\ WorkerFree
    /\ i \in pending
    /\ \E c \in {get_coordinates(i, img.width)} :
       \E original_lab \in {get_lab_color(img, c[1], c[2])} :
       \E averaged_lab \in {fast_spatial_color_average(
                                 c[1], c[2], img.width, img.height,
                                 config.spatial_averaging_radius,
                                 integral_image)} :
       \E final_lab \in {FinalLab(original_lab, averaged_lab)} :
       \E final_rgb \in {lab_to_image_rgb(final_lab)} :
       \E blended_rgb \in {blend_colors(final_rgb, get_pixel(img, c[1], c[2]),
                                        config.blend_factor)} :
          tasks' = [j \in Running \cup {i} |->
                       IF j = i
                       THEN [NewTask EXCEPT !.pc = "lock_final", !.x = c[1],
                                            !.y = c[2],
                                            !.pixel = get_pixel(img, c[1], c[2]),
                                            !.original_lab = original_lab,
                                            !.averaged_lab = averaged_lab,
                                            !.lab = final_lab,
                                            !.new_pixel = blended_rgb]
                       ELSE tasks[j]]
    /\ pending' = pending \ {i}
    /\ UNCHANGED <<img, config, phase, total_pixels, color_map, color_map_lock,
                   output, output_lock, first_pass_output, integral_image,
                   final_output, final_output_lock, progress, bar_position,
                   panicked, result, writes, integral_builds>>
    /\ UNCHANGED harness_vars

\* final_output.lock()
LockFinalOutput(i) ==
    /\ i \in Running
    /\ tasks[i].pc = "lock_final"
    /\ final_output_lock = <<>>
    /\ final_output_lock' = <<i>>
    /\ tasks' = [tasks EXCEPT ![i].pc = "put_final"]
    /\ UNCHANGED <<img, config, phase, total_pixels, pending, color_map,
                   color_map_lock, output, output_lock, first_pass_output,
                   integral_image, final_output, progress, bar_position,
                   panicked, result, writes, integral_builds>>
    /\ UNCHANGED harness_vars

\* A pass 2 that writes its pixel into the intermediate image.
PutPixel2_IntoFirstPass(i) ==
    /\ i \in Running
    /\ tasks[i].pc = "put_final"
    /\ final_output_lock = <<i>>
    /\ first_pass_output' = put_pixel(first_pass_output, tasks[i].x, tasks[i].y,
                                      tasks[i].new_pixel)
    /\ writes' = [writes EXCEPT ![2][<<tasks[i].x, tasks[i].y>>] = @ + 1]
    /\ final_output_lock' = <<>>
    /\ tasks' = [tasks EXCEPT ![i].pc = "fetch_add"]
    /\ UNCHANGED <<img, config, phase, total_pixels, pending, color_map,
                   color_map_lock, output, output_lock, final_output,
                   integral_image, progress, bar_position, panicked, result,
                   integral_builds>>
    /\ UNCHANGED harness_vars

\* .put_pixel(x, y, blended_rgb) under the lock, released at the statement's end
PutPixel2(i) ==
    /\ i \in Running
    /\ tasks[i].pc = "put_final"
    /\ final_output_lock = <<i>>
    /\ final_output' = put_pixel(final_output, tasks[i].x, tasks[i].y, tasks[i].new_pixel)
    /\ writes' = [writes EXCEPT ![2][<<tasks[i].x, tasks[i].y>>] = @ + 1]
    /\ final_output_lock' = <<>>
    /\ tasks' = [tasks EXCEPT ![i].pc = "fetch_add"]
    /\ UNCHANGED <<img, config, phase, total_pixels, pending, color_map,
                   color_map_lock, output, output_lock, first_pass_output,
                   integral_image, progress, bar_position, panicked, result,
                   integral_builds>>
    /\ UNCHANGED harness_vars

\* A pass 2 that returns its buffer whether or not a pixel task panicked.
Pass2Return_IgnoresPanic ==
    /\ phase = "pass2"
    /\ AllIdle
    /\ result' = <<final_output>>
    /\ phase' = "done"
    /\ UNCHANGED <<img, config, total_pixels, pending, tasks, color_map,
                   color_map_lock, output, output_lock, first_pass_output,
                   integral_image, final_output, final_output_lock, progress,
                   bar_position, panicked, writes, integral_builds>>
    /\ UNCHANGED harness_vars

\* The parallel loop of pass 2 returns once every index has been processed
\* and no pixel task panicked; colorize returns the final buffer.
Pass2Return ==
    /\ phase = "pass2"
    /\ pending = {}
    /\ AllIdle
    /\ ~panicked
    /\ result' = <<final_output>>
    /\ phase' = "done"
    /\ UNCHANGED <<img, config, total_pixels, pending, tasks, color_map,
                   color_map_lock, output, output_lock, first_pass_output,
                   integral_image, final_output, final_output_lock, progress,
                   bar_position, panicked, writes, integral_builds>>
    /\ UNCHANGED harness_vars

(***************************************************************************)
(* Failing workers.  A pixel task that panics unwinds out of the closure;  *)
(* a MutexGuard dropped while its thread panics poisons the mutex, and     *)
(* lock() on a poisoned mutex returns Err, on which .unwrap() panics.      *)
(***************************************************************************)
\* The state of a poisoned mutex: held by no task, and never free again.
Poisoned == <<-1>>

\* The mutex after the task i that may hold it has panicked.
AfterPanicOf(i, lock) == IF lock = <<i>> THEN Poisoned ELSE lock

\* The pixel task of index i fails at the step it is about to take, the
\* first failure of the run: it unwinds, poisoning the mutex it holds.
WorkerFails(i) ==
    /\ i \in Running
    /\ ~panicked
    /\ tasks' = EndTask(i)
    /\ panicked' = TRUE
    /\ color_map_lock' = AfterPanicOf(i, color_map_lock)
    /\ output_lock' = AfterPanicOf(i, output_lock)
    /\ final_output_lock' = AfterPanicOf(i, final_output_lock)
    /\ UNCHANGED <<img, config, phase, total_pixels, pending, color_map, output,
                   first_pass_output, integral_image, final_output, progress,
                   bar_position, result, writes, integral_builds>>
    /\ UNCHANGED harness_vars

\* .lock().unwrap() on a poisoned mutex: the pixel task panics in its turn.
LockPoisoned(i) ==
    /\ i \in Running
    /\ \/ tasks[i].pc \in {"lock_get", "lock_insert"} /\ color_map_lock = Poisoned
       \/ tasks[i].pc = "lock_output" /\ output_lock = Poisoned
       \/ tasks[i].pc = "lock_final" /\ final_output_lock = Poisoned
    /\ tasks' = EndTask(i)
    /\ panicked' = TRUE
    /\ UNCHANGED <<img, config, phase, total_pixels, pending, color_map,
                   color_map_lock, output, output_lock, first_pass_output,
                   integral_image, final_output, final_output_lock, progress,
                   bar_position, result, writes, integral_builds>>
    /\ UNCHANGED harness_vars

(***************************************************************************)
(* The harnesses: each pure function called on inputs drawn from a set     *)
(***************************************************************************)
\* The state of the pipeline while a harness runs: colorize is not called.
PipelineIdle ==
    /\ img = NoImage
    /\ config = AppConfig(<<>>, 0, 0, <<1, 1>>)
    /\ phase = "idle"
    /\ total_pixels = 0
    /\ pending = {}
    /\ tasks = [j \in {} |-> NewTask]
    /\ color_map = EmptyMap
    /\ color_map_lock = <<>>
    /\ output = NoImage
    /\ output_lock = <<>>
    /\ first_pass_output = NoImage
    /\ integral_image = compute_integral_image(NoImage)
    /\ final_output = NoImage
    /\ final_output_lock = <<>>
    /\ progress = [p \in 1..2 |-> 0]
    /\ bar_position = [p \in 1..2 |-> 0]
    /\ panicked = FALSE
    /\ result = <<>>
    /\ writes = NoWrites
    /\ integral_builds = 0

BlendIdle == b_in = [color1 |-> <<0, 0, 0>>, color2 |-> <<0, 0, 0>>,
                     blend_factor |-> <<1, 1>>] /\ b_out = <<>>
ClosestIdle == c_in = [original |-> NoLab, colors |-> <<>>]
               /\ c_out = [tag |-> "none", color |-> NoLab]
MemoIdle == m_colors = <<>> /\ m_map = EmptyMap /\ m_calls = <<>>
DimensionsIdle == d_in = [width |-> <<0, 0, 0, 0>>, height |-> <<0, 0, 0, 0>>]
                  /\ d_out = [tag |-> "none",
                              total_pixels |-> <<0, 0, 0, 0, 0, 0, 0, 0>>]

\* A pixel whose three channels each run over all of 0..255 as v does.
SpreadPixel(v) ==
    <<v, (v + 85) % (ChannelMax + 1), (v + 170) % (ChannelMax + 1)>>

BlendInit ==
    /\ b_in \in [color1 : {SpreadPixel(v) : v \in Channels},
                 color2 : {SpreadPixel(v) : v \in Channels},
                 blend_factor : BlendFactors]
    /\ b_out = <<>>
    /\ ClosestIdle /\ MemoIdle /\ DimensionsIdle /\ PipelineIdle

\* let out = blend_colors(color1, color2, blend_factor)
Blend ==
    /\ phase = "idle"
    /\ b_out = <<>>
    /\ b_out' = <<blend_colors(b_in.color1, b_in.color2, b_in.blend_factor)>>
    /\ UNCHANGED <<b_in, c_in, c_out, m_colors, m_map, m_calls, d_in, d_out>>
    /\ UNCHANGED pipeline_vars

\* The colors and palette entries of the nearest-match harness.  The entries
\* at chroma (10, 0), (-10, 0), (0, 10) are at the same difference from the
\* grey (50, 0, 0).
ClosestOriginals == {Lab(50, 0, 0), Lab(50, 10, 0), Lab(20, -5, 30)}
ClosestEntries == {Lab(50, 10, 0), Lab(50, -10, 0), Lab(50, 0, 10), Lab(80, 0, 0)}

RECURSIVE SeqsUpTo(_, _)
SeqsUpTo(S, n) ==
    IF n = 0 THEN {<<>>}
    ELSE SeqsUpTo(S, n - 1) \cup
         {Append(q, e) : q \in {r \in SeqsUpTo(S, n - 1) : Len(r) = n - 1}, e \in S}

ClosestInit ==
    /\ c_in \in [original : ClosestOriginals,
                 colors : SeqsUpTo(ClosestEntries, MaxPalette)]
    /\ c_out = [tag |-> "none", color |-> NoLab]
    /\ BlendIdle /\ MemoIdle /\ DimensionsIdle /\ PipelineIdle

\* let out = find_closest_color(&original, &colors)
Closest ==
    /\ phase = "idle"
    /\ c_out.tag = "none"
    /\ \/ /\ find_closest_color(c_in.original, c_in.colors) # <<>>
          /\ c_out' = [tag |-> "some",
                       color |-> find_closest_color(c_in.original, c_in.colors)[1]]
       \/ /\ find_closest_color(c_in.original, c_in.colors) = <<>>
          /\ c_out' = [tag |-> "panic", color |-> NoLab]
    /\ UNCHANGED <<b_in, b_out, c_in, m_colors, m_map, m_calls, d_in, d_out>>
    /\ UNCHANGED pipeline_vars

\* memoized_find_closest_color run by one thread from its first line to its
\* return, for a non-empty palette: the value it returns, the map it leaves,
\* whether the lookup hit, and the calls of find_closest_color it made.
memoized_find_closest_color(map, pixel, colors) ==
    IF CacheGet(map, pixel) # <<>>
    THEN [value |-> CacheGet(map, pixel)[1], map |-> map, hit |-> TRUE,
          computed |-> 0]
    ELSE [value |-> ColorizedLab(pixel, colors)[1],
          map |-> CacheInsert(map, pixel, ColorizedLab(pixel, colors)[1]),
          hit |-> FALSE, computed |-> 1]

MemoPalettes == {<<PaletteRed>>, <<PaletteRed, PaletteBlue>>,
                 <<PaletteBlue, PaletteRed>>}
MemoPixels == {PixelColors[k] : k \in 1..Len(PixelColors)}

MemoInit ==
    /\ m_colors \in MemoPalettes
    /\ m_map = EmptyMap
    /\ m_calls = <<>>
    /\ BlendIdle /\ ClosestIdle /\ DimensionsIdle /\ PipelineIdle

\* One more call on the same map, recorded with the map it found.
MemoCall ==
    /\ phase = "idle"
    /\ Len(m_calls) < MaxCalls
    /\ \E pixel \in MemoPixels :
        LET r == memoized_find_closest_color(m_map, pixel, m_colors)
        IN  /\ m_map' = r.map
            /\ m_calls' = Append(m_calls,
                              [pixel |-> pixel, value |-> r.value, hit |-> r.hit,
                               computed |-> r.computed, before |-> m_map,
                               after |-> r.map])
    /\ UNCHANGED <<b_in, b_out, c_in, c_out, m_colors, d_in, d_out>>
    /\ UNCHANGED pipeline_vars

(***************************************************************************)
(* let total_pixels = (width * height) as u64, on the full range of u32.   *)
(* A u32 is four limbs of eight bits, a u64 eight limbs, the least         *)
(* significant first.                                                      *)
(***************************************************************************)
LimbBase == 2 ^ 8

\* The sum of the limb products a[i] * b[j] of weight LimbBase^(k - 1), from
\* limb i of a up.
RECURSIVE ColumnSum(_, _, _, _)
ColumnSum(a, b, k, i) ==
    IF i > Len(a) THEN 0
    ELSE (IF k - i + 1 \in 1..Len(b) THEN a[i] * b[k - i + 1] ELSE 0)
         + ColumnSum(a, b, k, i + 1)

\* The carry into limb k of the product.
RECURSIVE CarryInto(_, _, _)
CarryInto(a, b, k) ==
    IF k = 1 THEN 0
    ELSE (ColumnSum(a, b, k - 1, 1) + CarryInto(a, b, k - 1)) \div LimbBase

\* The product of two u32 as a mathematical integer, on eight limbs.
ExactProduct(a, b) ==
    [k \in 1..(Len(a) + Len(b)) |->
        (ColumnSum(a, b, k, 1) + CarryInto(a, b, k)) % LimbBase]

\* A u32 product that overflows: a bit is set above the low four limbs.
MulOverflows(a, b) ==
    \E k \in (Len(a) + 1)..(Len(a) + Len(b)) : ExactProduct(a, b)[k] # 0

\* u32 * u32 without overflow checks: the product modulo 2^32.
WrappingMul(a, b) == [k \in 1..Len(a) |-> ExactProduct(a, b)[k]]

\* `x as u64` for a u32 x: zero-extended.
AsU64(x) == [k \in 1..(2 * Len(x)) |-> IF k <= Len(x) THEN x[k] ELSE 0]

\* The widths and heights the harness draws: 0, 1, 2, 3, 255, 256, 4096,
\* 65535, 65536, 65537, 2^24, 2^31 and 2^32 - 1.
DimensionValues ==
    {<<0, 0, 0, 0>>, <<1, 0, 0, 0>>, <<2, 0, 0, 0>>, <<3, 0, 0, 0>>,
     <<255, 0, 0, 0>>, <<0, 1, 0, 0>>, <<0, 16, 0, 0>>, <<255, 255, 0, 0>>,
     <<0, 0, 1, 0>>, <<1, 0, 1, 0>>, <<0, 0, 0, 1>>, <<0, 0, 0, 128>>,
     <<255, 255, 255, 255>>}

DimensionsInit ==
    /\ d_in \in [width : DimensionValues, height : DimensionValues]
    /\ d_out = [tag |-> "none", total_pixels |-> AsU64(<<0, 0, 0, 0>>)]
    /\ BlendIdle /\ ClosestIdle /\ MemoIdle /\ PipelineIdle

\* let total_pixels = (width * height) as u64: the multiplication is made on
\* u32.  When it overflows, a build with overflow checks (the dev profile)
\* panics and a build without (the release profile) wraps.
ComputeTotalPixels ==
    /\ phase = "idle"
    /\ d_out.tag = "none"
    /\ \/ d_out' = [tag |-> "value",
                    total_pixels |-> AsU64(WrappingMul(d_in.width, d_in.height))]
       \/ /\ MulOverflows(d_in.width, d_in.height)
          /\ d_out' = [tag |-> "panic", total_pixels |-> d_out.total_pixels]
    /\ UNCHANGED <<b_in, b_out, c_in, c_out, m_colors, m_map, m_calls, d_in>>
    /\ UNCHANGED pipeline_vars

(***************************************************************************)
(* update_progress called by the workers of a pass on an image of more     *)
(* than ProgressStep pixels: the work of a pixel task before the call is   *)
(* left out.                                                               *)
(***************************************************************************)
\* The pixels of the image of the progress harness.
ProgressPixels == ProgressStep + 2

ProgressInit ==
    /\ img = NoImage
    /\ config = AppConfig(<<>>, 0, 0, <<1, 1>>)
    /\ phase = "progress"
    /\ total_pixels = ProgressPixels
    /\ pending = {}
    /\ tasks = [j \in {} |-> NewTask]
    /\ color_map = EmptyMap
    /\ color_map_lock = <<>>
    /\ output = NoImage
    /\ output_lock = <<>>
    /\ first_pass_output = NoImage
    /\ integral_image = compute_integral_image(NoImage)
    /\ final_output = NoImage
    /\ final_output_lock = <<>>
    /\ progress = [p \in 1..2 |-> 0]
    /\ bar_position = [p \in 1..2 |-> 0]
    /\ panicked = FALSE
    /\ result = <<>>
    /\ writes = NoWrites
    /\ integral_builds = 0
    /\ BlendIdle /\ ClosestIdle /\ MemoIdle /\ DimensionsIdle

\* The worker k, free, reaches the call of update_progress at the end of a
\* pixel task, while pixels are left that have not made the call.
ReachUpdateProgress(k) ==
    /\ phase = "progress"
    /\ k \notin Running
    /\ progress[Pass] + Cardinality({j \in Running : tasks[j].pc = "fetch_add"})
            < total_pixels
    /\ tasks' = [j \in Running \cup {k} |->
                    IF j = k THEN [NewTask EXCEPT !.pc = "fetch_add"]
                    ELSE tasks[j]]
    /\ UNCHANGED <<img, config, phase, total_pixels, pending, color_map,
                   color_map_lock, output, output_lock, first_pass_output,
                   integral_image, final_output, final_output_lock, progress,
                   bar_position, panicked, result, writes, integral_builds>>
    /\ UNCHANGED harness_vars

(***************************************************************************)
(* The specifications                                                      *)
(***************************************************************************)
vars == <<pipeline_vars, harness_vars>>

Init == PipelineInit /\ BlendIdle /\ ClosestIdle /\ MemoIdle /\ DimensionsIdle

Next ==
    \/ Colorize
    \/ \E i \in 0..(MaxPixels - 1) : StartPixelTask1(i)
    \/ \E i \in 0..(MaxPixels - 1) : LockColorMapGet(i)
    \/ \E i \in 0..(MaxPixels - 1) : ColorMapGet(i)
    \/ \E i \in 0..(MaxPixels - 1) : ComputeColorizedLab(i)
    \/ \E i \in 0..(MaxPixels - 1) : LockColorMapInsert(i)
    \/ \E i \in 0..(MaxPixels - 1) : ColorMapInsert(i)
    \/ \E i \in 0..(MaxPixels - 1) : Dither(i)
    \/ \E i \in 0..(MaxPixels - 1) : LockOutput(i)
    \/ \E i \in 0..(MaxPixels - 1) : PutPixel1(i)
    \/ \E i \in 0..(MaxPixels - 1) : FetchAdd(i)
    \/ \E i \in 0..(MaxPixels - 1) : SetPosition(i)
    \/ Pass1Return
    \/ PropagatePanic
    \/ ComputeIntegralImage
    \/ \E i \in 0..(MaxPixels - 1) : StartPixelTask2(i)
    \/ \E i \in 0..(MaxPixels - 1) : LockFinalOutput(i)
    \/ \E i \in 0..(MaxPixels - 1) : PutPixel2(i)
    \/ Pass2Return

\* One call of colorize on an image and a configuration of Inputs.
Spec == Init /\ [][Next]_vars

\* blend_colors on every pair of channel values and every factor of
\* BlendFactors.
SpecBlend == BlendInit /\ [][Blend]_vars

\* find_closest_color on the palettes of at most MaxPalette entries.
SpecClosest == ClosestInit /\ [][Closest]_vars

\* Up to MaxCalls calls of memoized_find_closest_color in sequence.
SpecMemo == MemoInit /\ [][MemoCall]_vars

\* One call of colorize whose threads are scheduled: while some thread can
\* take a step, a step is eventually taken.
SpecFair == Spec /\ WF_vars(Next)

\* One call of colorize in which a pixel task may fail at any of its steps.
SpecFailing ==
    Init /\ [][Next \/ (\E i \in 0..(MaxPixels - 1) : WorkerFails(i))
                    \/ (\E i \in 0..(MaxPixels - 1) : LockPoisoned(i))]_vars

\* The computation of total_pixels on widths and heights of all sizes.
SpecDimensions == DimensionsInit /\ [][ComputeTotalPixels]_vars

\* The calls of update_progress of one pass, by NumWorkers workers.
SpecProgress ==
    ProgressInit /\ [][\/ \E k \in 0..(NumWorkers - 1) : ReachUpdateProgress(k)
                       \/ \E k \in 0..(NumWorkers - 1) : FetchAdd(k)
                       \/ \E k \in 0..(NumWorkers - 1) : SetPosition(k)]_vars

\* One call of colorize, or one call of blend_colors on its own.
SpecColorizeOrBlend == (Init \/ BlendInit) /\ [][Next \/ Blend]_vars

(***************************************************************************)
(* Properties                                                              *)
(***************************************************************************)
AllCoords == Coords(img.width, img.height)

\* The pixel tasks of pass 1 that have obtained their colorized_lab.
HasColorizedLab(i) ==
    /\ i \in Running
    /\ tasks[i].pc \in {"lock_insert", "insert", "dither", "lock_output", "put"}

\* The pixel tasks of pass 2 in flight that hold their final_lab.
HasFinalLab(i) ==
    /\ i \in Running
    /\ tasks[i].pc \in {"lock_final", "put_final"}

\* C1: called with an empty palette, colorize fails fast: no pixel task is
\* started, no pixel is written, no worker panics and no image is returned.
C1_EmptyPaletteFailsFast ==
    (Len(config.colors) = 0 /\ phase # "idle") =>
        /\ Running = {}
        /\ ~panicked
        /\ phase # "panicked"
        /\ \A c \in AllCoords : writes[1][c] = 0

\* C2: in each pass every task runs on an in-bounds coordinate, no
\* coordinate is written more than once, and when the pass has returned every
\* coordinate has been written exactly once.
C2_EveryCoordinateWrittenOnce ==
    /\ \A i \in Running : <<tasks[i].x, tasks[i].y>> \in AllCoords
    /\ \A p \in 1..2 : \A c \in AllCoords : writes[p][c] <= 1
    /\ phase \in {"integral", "pass2", "done"} =>
            \A c \in AllCoords : writes[1][c] = 1
    /\ phase = "done" => \A c \in AllCoords : writes[2][c] = 1

C2_Witness ==
    /\ phase = "done"
    /\ img.width = 2 /\ img.height = 2
    /\ \A p \in 1..2 : \A c \in AllCoords : writes[p][c] = 1

\* The image pass 1 builds when no pixel is dithered, computed pixel by pixel
\* without a color map.
SequentialFirstPass(image, cfg) ==
    [width |-> image.width, height |-> image.height,
     pixels |-> [c \in DOMAIN image.pixels |->
        LET lab == ColorizedLab(image.pixels[c], cfg.colors)[1]
        IN  lab_to_image_rgb(apply_dithering(lab, lab, 0, 0))]]

\* The image pass 2 builds from an intermediate image, pixel by pixel.
SequentialSecondPass(image, first, cfg) ==
    [width |-> image.width, height |-> image.height,
     pixels |-> [c \in DOMAIN image.pixels |->
        LET averaged_lab == fast_spatial_color_average(
                                c[1], c[2], image.width, image.height,
                                cfg.spatial_averaging_radius,
                                compute_integral_image(first))
            final_lab == FinalLab(get_lab_color(image, c[1], c[2]), averaged_lab)
        IN  blend_colors(lab_to_image_rgb(final_lab), image.pixels[c],
                         cfg.blend_factor)]]

\* C3: with dither amount 0 the image colorize returns is a function of the
\* input image and the configuration alone, whatever the order in which the
\* workers ran the pixel tasks and filled the color map: every run on the same
\* input returns the same image.
C3_OutputIsFunctionOfInput ==
    (phase = "done" /\ config.dither_amount = 0) =>
        /\ first_pass_output = SequentialFirstPass(img, config)
        /\ result = <<SequentialSecondPass(img, SequentialFirstPass(img, config),
                                           config)>>

C3_Witness ==
    /\ phase = "done"
    /\ config.dither_amount = 0
    /\ total_pixels = 4
    /\ Cardinality(DOMAIN color_map) = 3
    /\ result = <<final_output>>

\* The pixel pass 2 computes at a coordinate before blending.
UnblendedPixel(c) ==
    lab_to_image_rgb(FinalLab(
        get_lab_color(img, c[1], c[2]),
        fast_spatial_color_average(c[1], c[2], img.width, img.height,
                                   config.spatial_averaging_radius,
                                   integral_image)))

\* C4: blend_colors returns its first argument at blend factor 1 and its
\* second argument at blend factor 0, on every channel and for all 8-bit
\* values; the image colorize returns is the original image at factor 0 and
\* the unblended recoloring of pass 2 at factor 1.
C4_BlendEndpoints ==
    /\ (b_out # <<>> /\ b_in.blend_factor = <<1, 1>>) => b_out[1] = b_in.color1
    /\ (b_out # <<>> /\ b_in.blend_factor = <<0, 1>>) => b_out[1] = b_in.color2
    /\ (phase = "done" /\ config.blend_factor = <<0, 1>>) =>
            result[1].pixels = img.pixels
    /\ (phase = "done" /\ config.blend_factor = <<1, 1>>) =>
            \A c \in AllCoords : result[1].pixels[c] = UnblendedPixel(c)

C4_Witness ==
    /\ b_out # <<>>
    /\ b_in.blend_factor = <<0, 1>>
    /\ b_in.color1 = SpreadPixel(255)
    /\ b_in.color2 = SpreadPixel(7)
    /\ b_out[1] = SpreadPixel(7)

\* C5: every channel blend_colors returns is f * recolored + (1 - f) *
\* original rounded to the nearest integer, then clamped to 0..255 (stated
\* here for the factors from 0 to 1).
C5_BlendRoundsToNearest ==
    (b_out # <<>> /\ 0 <= b_in.blend_factor[1]
                 /\ b_in.blend_factor[1] <= b_in.blend_factor[2]) =>
        \A k \in 1..3 :
            b_out[1][k] = BlendChannelRound(b_in.color1[k], b_in.color2[k],
                                            b_in.blend_factor)

\* The palette indices at the least difference from a color.
ClosestSet(original, colors) ==
    {k \in 1..Len(colors) :
        \A j \in 1..Len(colors) :
            improved_difference(original, colors[k])
                <= improved_difference(original, colors[j])}

\* The first palette index at the least difference from a color.
FirstClosest(original, colors) ==
    CHOOSE k \in ClosestSet(original, colors) :
        \A j \in ClosestSet(original, colors) : k <= j

\* C6: for a non-empty palette find_closest_color returns a palette entry at
\* the least difference from the color, the first such entry in palette
\* order.
C6_FirstMinimalEntry ==
    (c_out.tag # "none" /\ Len(c_in.colors) > 0) =>
        /\ c_out.tag = "some"
        /\ c_out.color = c_in.colors[FirstClosest(c_in.original, c_in.colors)]

C6_Witness ==
    /\ c_out.tag = "some"
    /\ Len(c_in.colors) = 3
    /\ ClosestSet(c_in.original, c_in.colors) = {2, 3}
    /\ c_in.colors[2] # c_in.colors[3]
    /\ c_out.color = c_in.colors[2]

\* C7: the color a pixel task of pass 1 obtains from
\* memoized_find_closest_color has the lightness of the task's own original
\* pixel and the chroma of the palette entry closest to it, on a hit and on
\* a miss.
C7_LightnessKeptChromaMatched ==
    \A i \in 0..(MaxPixels - 1) :
        HasColorizedLab(i) =>
            LET c             == get_coordinates(i, img.width)
                original_lab  == SrgbIntoLab(get_pixel(img, c[1], c[2]))
                closest_color == config.colors[
                                     FirstClosest(original_lab, config.colors)]
            IN  /\ tasks[i].lab.l = original_lab.l
                /\ tasks[i].lab.a = closest_color.a
                /\ tasks[i].lab.b = closest_color.b

\* A hit on an entry that another task inserted, for a pixel whose lightness
\* is not that of the palette entry.
C7_Witness ==
    \E i \in Running :
        /\ HasColorizedLab(i)
        /\ tasks[i].hit
        /\ tasks[i].lab.l # PaletteRed.l
        /\ tasks[i].lab.l = SrgbIntoLab(tasks[i].pixel).l

\* C8: the color a pixel task of pass 2 builds before blending has the
\* lightness of the original image at the task's coordinate and the chroma of
\* the spatial average at that coordinate; the lightness of the average is
\* not used.
C8_OriginalLightnessAveragedChroma ==
    \A i \in 0..(MaxPixels - 1) :
        HasFinalLab(i) =>
            LET c            == get_coordinates(i, img.width)
                averaged_lab == fast_spatial_color_average(
                                    c[1], c[2], img.width, img.height,
                                    config.spatial_averaging_radius,
                                    integral_image)
            IN  /\ tasks[i].lab.l = get_lab_color(img, c[1], c[2]).l
                /\ tasks[i].lab.a = averaged_lab.a
                /\ tasks[i].lab.b = averaged_lab.b

\* A pass-2 task whose spatial average has another lightness than the
\* original pixel.
C8_Witness ==
    \E i \in Running :
        /\ HasFinalLab(i)
        /\ tasks[i].averaged_lab.l # tasks[i].original_lab.l
        /\ tasks[i].lab.l = tasks[i].original_lab.l
        /\ config.spatial_averaging_radius = 1

\* C9: of two calls of memoized_find_closest_color in sequence on the same
\* map, color and palette, the second returns the value of the first, hits,
\* makes no call of find_closest_color and leaves the map as it found it.
C9_SecondCallHits ==
    \A k \in 2..Len(m_calls) :
        m_calls[k].pixel = m_calls[k - 1].pixel =>
            /\ m_calls[k].value = m_calls[k - 1].value
            /\ m_calls[k].hit
            /\ m_calls[k].computed = 0
            /\ m_calls[k].after = m_calls[k].before
            /\ m_calls[k].before = m_calls[k - 1].after

C9_Witness ==
    /\ Len(m_calls) = 3
    /\ m_calls[2].pixel # m_calls[1].pixel
    /\ m_calls[3].pixel = m_calls[2].pixel
    /\ ~m_calls[2].hit
    /\ m_calls[3].hit

\* C10: no pixel task of pass 2 runs and the integral image is not built
\* before every pixel task of pass 1 has written its pixel; the integral
\* image is built once, from the completed intermediate image, while no
\* pixel task runs.
C10_PassesInSequence ==
    /\ integral_builds <= 1
    /\ phase \in {"init", "pass1", "integral", "panicked"} =>
            /\ integral_builds = 0
            /\ \A i \in Running : tasks[i].pc \notin {"lock_final", "put_final"}
            /\ \A c \in AllCoords : writes[2][c] = 0
    /\ phase = "integral" => Running = {}
    /\ phase \in {"integral", "pass2", "done"} =>
            /\ \A c \in AllCoords : writes[1][c] = 1
            /\ first_pass_output = output
    /\ phase \in {"pass2", "done"} =>
            /\ integral_builds = 1
            /\ integral_image = compute_integral_image(first_pass_output)
            /\ \A i \in Running :
                  tasks[i].pc \in {"lock_final", "put_final", "fetch_add",
                                   "set_position"}

C10_Witness ==
    /\ phase = "pass2"
    /\ Cardinality(Running) = 2
    /\ integral_builds = 1
    /\ total_pixels = 4

\* C11: once a pixel task has failed, in either pass and whether or not it
\* held a lock, colorize returns no image: the pass that was running is the
\* last one and ends by unwinding, and neither the partially written
\* intermediate buffer nor the final buffer is handed on.  The index of a
\* failed task is never put back among the indices to process.
C11_FailureIsFatal ==
    /\ [](panicked =>
            /\ result = <<>>
            /\ phase \in {"pass1", "pass2", "panicked"}
            /\ (phase = "pass1" \/ integral_builds = 0) =>
                    first_pass_output = NoImage)
    /\ [](phase = "panicked" => panicked /\ Running = {})
    /\ [][(phase' = phase) => (pending' \subseteq pending)]_vars

\* A run that failed in pass 1 under the output lock, poisoning it, after
\* some but not all pixels of the intermediate buffer were written.
C11_Witness ==
    /\ phase = "panicked"
    /\ output_lock = Poisoned
    /\ result = <<>>
    /\ \E c \in AllCoords : writes[1][c] = 1
    /\ \E c \in AllCoords : writes[1][c] = 0

\* The value the color map is to hold under a key: the lightness of the key's
\* color with the chroma of the palette entry closest to it.
ExpectedEntry(key) ==
    LET original_lab  == SrgbIntoLab(key)
        closest_color == config.colors[FirstClosest(original_lab, config.colors)]
    IN  Lab(original_lab.l, closest_color.a, closest_color.b)

\* C12: in every state every entry of the color map holds, under its key,
\* the lightness of the key's color and the chroma of the palette entry
\* closest to it; no step removes an entry or changes the value under a key,
\* a second insert under the same key included.
C12_CacheEntriesFixed ==
    /\ [](\A key \in DOMAIN color_map : color_map[key] = ExpectedEntry(key))
    /\ [][\A key \in DOMAIN color_map :
            /\ key \in DOMAIN color_map'
            /\ color_map'[key] = color_map[key]]_vars

\* Two tasks missed the same key: one has inserted its value, the other is
\* about to insert under the key already present, with other keys in the map.
C12_Witness ==
    \E i \in Running :
        /\ tasks[i].pc = "insert"
        /\ CacheKey(tasks[i].pixel) \in DOMAIN color_map
        /\ Cardinality(DOMAIN color_map) >= 2

\* The steps a pixel task takes under a lock: the lookup and the insert
\* under the lock of the color map, put_pixel under the lock of a buffer.
HoldsOnlyAt(lock, pcs) ==
    \/ lock = <<>>
    \/ \E i \in Running : lock = <<i>> /\ tasks[i].pc \in pcs

\* The locks the pixel task of index i holds.
LocksHeldBy(i) ==
    {k \in 1..3 : <<color_map_lock, output_lock, final_output_lock>>[k] = <<i>>}

\* C13: the lock of the color map is held only by a task at its lookup or at
\* its insert, the lock of a buffer only by a task at its put_pixel; a task
\* that is converting a color, computing palette differences, dithering,
\* waiting for a lock or reporting progress holds no lock, and no task holds
\* two locks.
C13_LocksHeldForPointOperations ==
    /\ HoldsOnlyAt(color_map_lock, {"get", "insert"})
    /\ HoldsOnlyAt(output_lock, {"put"})
    /\ HoldsOnlyAt(final_output_lock, {"put_final"})
    /\ \A i \in Running :
          /\ Cardinality(LocksHeldBy(i)) <= 1
          /\ tasks[i].pc \in {"compute", "dither", "lock_get", "lock_insert",
                               "lock_output", "lock_final", "fetch_add",
                               "set_position"} => LocksHeldBy(i) = {}

\* One task computes the value for its color while another task holds the
\* lock of the color map for its insert.
C13_Witness ==
    \E i, j \in Running :
        /\ tasks[i].pc = "insert"
        /\ color_map_lock = <<i>>
        /\ tasks[j].pc = "compute"
        /\ LocksHeldBy(j) = {}

\* The pixel tasks of the running pass that have made their increment: the
\* ended ones and those at set_position.
Incremented ==
    total_pixels - Cardinality(pending)
        - Cardinality({i \in Running : tasks[i].pc # "set_position"})

\* C14: in a pass without a failure the progress counter of the pass counts
\* the pixel tasks that went through update_progress, one increment each; it
\* equals total_pixels once the parallel loop of the pass has returned, and no
\* step decreases a counter.
C14_OneIncrementPerPixel ==
    /\ []((phase \in {"pass1", "pass2"} /\ ~panicked) =>
                progress[Pass] = Incremented)
    /\ [](phase \in {"integral", "pass2", "done"} => progress[1] = total_pixels)
    /\ [](phase = "done" => progress[2] = total_pixels)
    /\ [](phase \in {"init", "pass1", "integral"} => progress[2] = 0)
    /\ [][\A p \in 1..2 : progress'[p] >= progress[p]]_vars

\* Two pixel tasks of pass 2 are at their increment at the same time, after
\* pass 1 counted its four pixels.
C14_Witness ==
    /\ phase = "pass2"
    /\ total_pixels = 4
    /\ progress[1] = 4
    /\ \E i, j \in Running :
          i # j /\ tasks[i].pc = "fetch_add" /\ tasks[j].pc = "fetch_add"

\* C15: no step of colorize changes the original image, the palette or the
\* rest of the configuration; a step taken during pass 2 leaves the
\* intermediate image, the integral image, the buffer and the color map of
\* pass 1 as they are (it may write the final image, its lock, the progress
\* counter and the bar of pass 2), and a step taken during pass 1 writes
\* nothing of pass 2.
C15_FrameConditions ==
    /\ [][img' = img /\ config' = config]_vars
    /\ [][phase = "pass2" =>
            /\ first_pass_output' = first_pass_output
            /\ integral_image' = integral_image
            /\ output' = output
            /\ color_map' = color_map
            /\ total_pixels' = total_pixels
            /\ progress'[1] = progress[1]
            /\ bar_position'[1] = bar_position[1]]_vars
    /\ [][phase = "pass1" =>
            /\ final_output' = final_output
            /\ integral_image' = integral_image
            /\ progress'[2] = progress[2]
            /\ bar_position'[2] = bar_position[2]]_vars

\* Pass 2 has written a pixel of the final image that differs from the pixel
\* of the intermediate image at the same coordinate, and the intermediate
\* image is still the one pass 1 built.
C15_Witness ==
    /\ phase = "pass2"
    /\ config.dither_amount = 0
    /\ first_pass_output = SequentialFirstPass(img, config)
    /\ \E c \in AllCoords :
          /\ writes[2][c] = 1
          /\ final_output.pixels[c] # first_pass_output.pixels[c]

\* A pixel task that waits for a lock.
WaitsForLock(i) ==
    tasks[i].pc \in {"lock_get", "lock_insert", "lock_output", "lock_final"}

\* C16: with a non-empty palette and scheduled threads, colorize comes to
\* its end: pass 1 has returned its buffer, the integral image has been built
\* and pass 2 has returned the final image.  A task that waits for a lock
\* holds none, and in every state short of the end of colorize some thread
\* can take a step.
C16_RunsToCompletion ==
    /\ <>(\/ Len(config.colors) = 0
          \/ /\ phase = "done"
             /\ first_pass_output = output
             /\ integral_builds = 1
             /\ result = <<final_output>>)
    /\ [](\A i \in Running : WaitsForLock(i) => LocksHeldBy(i) = {})
    /\ [](phase \notin {"done", "panicked"} => ENABLED Next)

\* A pixel task waits for the lock of the color map, which another task
\* holds for its insert.
C16_Witness ==
    \E i, j \in Running :
        /\ i # j
        /\ tasks[i].pc = "lock_get"
        /\ tasks[j].pc = "insert"
        /\ color_map_lock = <<j>>
        /\ Len(config.colors) > 0

\* C17: for every width and height of u32, total_pixels is computed without
\* failure and is the mathematical product width x height.
C17_ProductNeverWraps ==
    d_out.tag # "none" =>
        /\ d_out.tag = "value"
        /\ d_out.total_pixels = ExactProduct(d_in.width, d_in.height)

\* C18: no step of a pass lowers the position its progress bar shows, and
\* the position never exceeds the increments made on the counter of the pass.
C18_BarPositionMonotone ==
    /\ [][\A p \in 1..2 : bar_position'[p] >= bar_position[p]]_vars
    /\ [](\A p \in 1..2 : bar_position[p] <= progress[p])

=============================================================================
